---- MODULE Spec2Model ----
(***************************************************************************)
(* Model of scripts/add-eist-aris-shows.py: EistArisScheduler's slot       *)
(* discovery (find_empty_slots), the candidate list (build_replay_list)    *)
(* and the show-to-slot matching of main's --plan mode.                    *)
(*                                                                         *)
(* Time is counted in whole seconds from week_start (Monday 00:00 UTC).    *)
(* An occupied show is a record [start, end]; its title is only printed    *)
(* and is left out.  A gap is a record [start, end]; the gap's             *)
(* 'duration_minutes' is only printed (lines 470-472) and is left out.     *)
(* A slot is a record [start, end, duration_minutes, scheduled_duration].  *)
(*                                                                         *)
(* Each mode of the script is a specification of its own over the same     *)
(* variables: Spec (find_empty_slots), PlanSpec (--plan), ReplaySpec       *)
(* (build_replay_list) and the others below; the variables of the other    *)
(* modes stay idle.                                                        *)
(***************************************************************************)
EXTENDS Integers, Sequences, FiniteSets, TLC

VARIABLES
    pc,                \* position in find_empty_slots
    fetch_error,       \* fetch_schedule printed "Error fetching schedule"
    current_schedule,  \* what fetch_schedule returned, in API order
    occupied_slots,    \* the timeline, sorted by start
    day_offset,        \* the for-loop variable of lines 374-458
    day_shows,         \* the shows of the day scanned last
    empty_slots,       \* the gaps (and the blocks of empty days)
    gap_index,         \* 1-based position of the loop of lines 467-510
    slot_count,        \* slots created from the gap split last
    valid_slots,       \* the slots; the return value once pc = "done"
    \* main, --plan (lines 1002-1075)
    plan_pc,           \* position in the --plan branch
    schedule_json,     \* titles of schedule.json, the published schedule
    eligible_shows,    \* the candidates loaded from tracks.json
    empty_slots_data,  \* the slots loaded from empty-slots.json
    shows_1hr_index,   \* 0-based cursor into shows_1hr
    shows_2hr_index,   \* 0-based cursor into shows_2hr
    slot_index,        \* 1-based position of the loop of lines 1047-1062
    updated_slots,     \* the mappings made so far
    plan_file,         \* the content of updated-slots.json
    \* build_replay_list (lines 252-320)
    replay_pc,         \* position in build_replay_list
    all_shows,         \* what fetch_schedule returned (line 270)
    show_index,        \* number of shows of all_shows looked at
    replay_list,       \* the function's eligible_shows, its return value
    \* the while loops of find_empty_slots, one iteration at a time
    loop_pc,           \* which loop runs: lines 395-417 or lines 478-508
    cursor_time,       \* the loop's current_time
    cursor_end,        \* the loop's day_end or gap_end
    loop_slots,        \* what the loop has appended
    \* get_week_start (lines 322-335) and its use (lines 348-350, 375-378)
    week_pc,           \* position in the start of find_empty_slots
    target_date,       \* the date given, in seconds from a Monday 00:00
    week_start,        \* get_week_start(target_date)
    end_date,          \* week_start + days
    first_day_start,   \* day_start of day_offset 0
    \* main, a run of --plan or of --execute (lines 1002-1143)
    run_mode,          \* "plan" or "execute"
    main_pc,           \* position in main
    files,             \* the files on disk
    output_arg,        \* args.output, "" when not given
    files_written,     \* the files this run wrote
    exec_mappings,     \* 'mappings' of --execute, as loaded
    browser,           \* "none", "open" or "closed"
    mapping_index,     \* mappings the for loop is done with
    attempted,         \* positions create_show_from_mapping was called for
    filled_titles,     \* titles create_show_from_mapping filled in
    success_count,
    error_count,
    exit_status,       \* Running until the run ends
    \* authenticate_with_playwright (lines 61-123) and the scheduler it is of
    authenticated,     \* self.authenticated
    login_username,    \* "" when not set
    login_password,    \* "" when not set
    auth_pc,           \* position in authenticate_with_playwright
    session_cookies,   \* the cookies of self.session
    auth_browser,      \* "none", "open" or "closed"
    launches,          \* browsers launched so far
    auth_calls,        \* calls of authenticate_with_playwright so far
    test_status,       \* status of the test request of the call, 0 before it
    auth_raised        \* the try block of the call raised

slot_vars == <<pc, fetch_error, current_schedule, occupied_slots, day_offset,
               day_shows, empty_slots, gap_index, slot_count, valid_slots>>

plan_vars == <<plan_pc, schedule_json, eligible_shows, empty_slots_data,
               shows_1hr_index, shows_2hr_index, slot_index, updated_slots,
               plan_file>>

replay_vars == <<replay_pc, all_shows, show_index, replay_list>>

loop_vars == <<loop_pc, cursor_time, cursor_end, loop_slots>>

week_vars == <<week_pc, target_date, week_start, end_date, first_day_start>>

main_vars == <<run_mode, main_pc, files, output_arg, files_written,
               exec_mappings, browser, mapping_index, attempted,
               filled_titles,
               success_count, error_count, exit_status>>

auth_vars == <<authenticated, login_username, login_password, auth_pc,
               session_cookies, auth_browser, launches, auth_calls,
               test_status, auth_raised>>

vars == <<slot_vars, plan_vars, replay_vars, loop_vars, week_vars,
          main_vars, auth_vars>>

\* what a mode leaves alone: the variables of the other modes
beside_slot_vars == <<plan_vars, replay_vars, loop_vars, week_vars,
                      main_vars, auth_vars>>
beside_plan_vars == <<slot_vars, replay_vars, loop_vars, week_vars,
                      main_vars, auth_vars>>
beside_replay_vars == <<slot_vars, plan_vars, loop_vars, week_vars,
                        main_vars, auth_vars>>
beside_loop_vars == <<slot_vars, plan_vars, replay_vars, week_vars,
                      main_vars, auth_vars>>
beside_week_vars == <<slot_vars, plan_vars, replay_vars, loop_vars,
                      main_vars, auth_vars>>
beside_main_vars == <<slot_vars, plan_vars, replay_vars, loop_vars,
                      week_vars, auth_vars>>
beside_auth_vars == <<slot_vars, plan_vars, replay_vars, loop_vars,
                      week_vars, main_vars>>

---------------------------------------------------------------------------
(* Bounds of the model *)

\* the `days` argument of find_empty_slots
Days == 2

\* the longest schedule the API returns
MaxShows == 2

---------------------------------------------------------------------------
(* Units and program constants *)

Minute == 60
Hour == 60 * Minute
Day == 24 * Hour

\* day_start = current_day.replace(hour=9, ...)
DAY_START_HOUR == 9

\* day_end = current_day.replace(hour=23, minute=59, second=59, ...)
DAY_END_HOUR == 23
DAY_END_MINUTE == 59
DAY_END_SECOND == 59

\* the two slot lengths, in minutes
TWO_HOUR_SLOT == 120
ONE_HOUR_SLOT == 60

\* show.get('start') / show.get('end') of a show that lacks the field
NoTime == -1

---------------------------------------------------------------------------
(* The schedules the API may return *)

\* (start, end) clock times of a show, in seconds after its day's midnight
ShowClocks ==
    { <<8 * Hour, 11 * Hour>>,                  \* starts before 09:00, ends after it
      <<9 * Hour, 10 * Hour>>,                  \* starts with the day
      <<9 * Hour, 12 * Hour>>,                  \* back to back with a 12:00 show
      <<12 * Hour, 13 * Hour>>,
      <<12 * Hour, 13 * Hour + 30 * Minute>>,   \* same start, later end
      <<12 * Hour, 12 * Hour>>,                 \* end = start
      <<12 * Hour, 10 * Hour>>,                 \* end < start
      <<15 * Hour, 17 * Hour>>,                 \* an afternoon show
      <<12 * Hour, 24 * Hour + 30 * Minute>> }  \* runs past the end of the day

Shows ==
    { [start |-> d * Day + c[1], end |-> d * Day + c[2]] :
          d \in 0..(Days - 1), c \in ShowClocks }
    \cup { [start |-> 12 * Hour, end |-> NoTime] }

Schedules == UNION { [1..n -> Shows] : n \in 0..MaxShows }

---------------------------------------------------------------------------
(* Sorting: list.sort(key=lambda x: x['start']) is stable *)

InsertByStart(sorted, x) ==
    LET n == Cardinality({ i \in 1..Len(sorted) : sorted[i].start <= x.start })
    IN  SubSeq(sorted, 1, n) \o <<x>> \o SubSeq(sorted, n + 1, Len(sorted))

RECURSIVE SortByStart(_)
SortByStart(seq) ==
    IF seq = <<>>
    THEN <<>>
    ELSE InsertByStart(SortByStart(SubSeq(seq, 1, Len(seq) - 1)), seq[Len(seq)])

\* lines 357-368: keep the shows that have a start and an end, sort by start
HasTimes(show) == show.start # NoTime /\ show.end # NoTime

BuildTimeline(schedule) == SortByStart(SelectSeq(schedule, HasTimes))

---------------------------------------------------------------------------
(* The day window *)

DayStartEarly(d) == d * Day + (DAY_START_HOUR - 1) * Hour

\* line 377
DayStart(d) == d * Day + DAY_START_HOUR * Hour

DayEndMidnight(d) == (d + 1) * Day

\* line 378
DayEnd(d) == d * Day + DAY_END_HOUR * Hour + DAY_END_MINUTE * Minute + DAY_END_SECOND

\* line 382: the shows that START in the window
DayShows(occupied, d) ==
    LET InWindow(s) == DayStart(d) <= s.start /\ s.start < DayEnd(d)
    IN  SelectSeq(occupied, InWindow)

---------------------------------------------------------------------------
(* Lines 392-417: a day without shows is cut into blocks directly *)

Block(from, minutes) == [start |-> from, end |-> from + minutes * Minute]

EmptyDayBlocksOneHour(current_time, day_end) ==
    [i \in 1..((day_end - current_time) \div Hour)
        |-> Block(current_time + (i - 1) * Hour, ONE_HOUR_SLOT)]

RECURSIVE EmptyDayBlocks(_, _)
EmptyDayBlocks(current_time, day_end) ==
    IF ~(current_time < day_end)
    THEN <<>>
    ELSE IF current_time + 2 * Hour <= day_end
         THEN <<Block(current_time, TWO_HOUR_SLOT)>>
                  \o EmptyDayBlocks(current_time + 2 * Hour, day_end)
         ELSE IF current_time + 1 * Hour <= day_end
              THEN <<Block(current_time, ONE_HOUR_SLOT)>>
                       \o EmptyDayBlocks(current_time + 1 * Hour, day_end)
              ELSE <<>>

---------------------------------------------------------------------------
(* Lines 418-458: the gaps of a day that has shows *)

GapBeforeLoose(shows, d) ==
    IF shows[1].start >= DayStart(d)
    THEN << [start |-> DayStart(d), end |-> shows[1].start] >>
    ELSE <<>>

\* lines 421-430
GapBefore(shows, d) ==
    IF shows[1].start > DayStart(d)
    THEN << [start |-> DayStart(d), end |-> shows[1].start] >>
    ELSE <<>>

RECURSIVE GapsBetweenLooseFrom(_, _)
GapsBetweenLooseFrom(shows, i) ==
    IF i >= Len(shows)
    THEN <<>>
    ELSE (IF shows[i].end <= shows[i + 1].start
          THEN << [start |-> shows[i].end, end |-> shows[i + 1].start] >>
          ELSE <<>>)
         \o GapsBetweenLooseFrom(shows, i + 1)

GapsBetweenLoose(shows) == GapsBetweenLooseFrom(shows, 1)

\* lines 433-446, from index i on
RECURSIVE GapsBetweenFrom(_, _)
GapsBetweenFrom(shows, i) ==
    IF i >= Len(shows)
    THEN <<>>
    ELSE (IF shows[i].end < shows[i + 1].start
          THEN << [start |-> shows[i].end, end |-> shows[i + 1].start] >>
          ELSE <<>>)
         \o GapsBetweenFrom(shows, i + 1)

GapsBetween(shows) == GapsBetweenFrom(shows, 1)

\* lines 449-458
GapAfter(shows, d) ==
    IF shows[Len(shows)].end < DayEnd(d)
    THEN << [start |-> shows[Len(shows)].end, end |-> DayEnd(d)] >>
    ELSE <<>>

DayGaps(shows, d) == GapBefore(shows, d) \o GapsBetween(shows) \o GapAfter(shows, d)

\* the body of the loop of lines 374-458 for one day
ScanOneDay(occupied, d) ==
    IF DayShows(occupied, d) = <<>>
    THEN EmptyDayBlocks(DayStart(d), DayEnd(d))
    ELSE DayGaps(DayShows(occupied, d), d)

\* lines 374-458 for the days d .. days-1
RECURSIVE ScanDaysFrom(_, _, _)
ScanDaysFrom(occupied, d, days) ==
    IF d >= days
    THEN <<>>
    ELSE ScanOneDay(occupied, d) \o ScanDaysFrom(occupied, d + 1, days)

\* empty_slots as find_empty_slots computes it from a fetched schedule
AllGaps(schedule) == ScanDaysFrom(BuildTimeline(schedule), 0, Days)

---------------------------------------------------------------------------
(* Lines 467-510: a gap is split into 2-hour and 1-hour slots *)

SlotOneHourClass(from, minutes) ==
    [start |-> from, end |-> from + minutes * Minute,
     duration_minutes |-> minutes, scheduled_duration |-> ONE_HOUR_SLOT]

Slot(from, minutes) ==
    [start |-> from, end |-> from + minutes * Minute,
     duration_minutes |-> minutes, scheduled_duration |-> minutes]

SlotClassLoose(remaining) ==
    IF remaining >= ONE_HOUR_SLOT * Minute THEN TWO_HOUR_SLOT ELSE 0

SlotClassOneHourFirst(remaining) ==
    IF remaining >= ONE_HOUR_SLOT * Minute THEN ONE_HOUR_SLOT ELSE 0

\* lines 479-508: the slot length chosen for `remaining` seconds, 0 for `break`
\* (remaining_minutes = seconds / 60 >= 120 exactly when seconds >= 120 * 60)
SlotClass(remaining) ==
    IF remaining >= TWO_HOUR_SLOT * Minute
    THEN TWO_HOUR_SLOT
    ELSE IF remaining >= ONE_HOUR_SLOT * Minute
         THEN ONE_HOUR_SLOT
         ELSE 0

AdvanceStuck(current_time, minutes) == current_time

\* lines 491, 503: current_time = slot_end
Advance(current_time, minutes) == current_time + minutes * Minute

RECURSIVE SplitFrom(_, _)
SplitFrom(current_time, gap_end) ==
    IF ~(current_time < gap_end)
    THEN <<>>
    ELSE LET minutes == SlotClass(gap_end - current_time)
         IN  IF minutes = 0
             THEN <<>>
             ELSE <<Slot(current_time, minutes)>>
                      \o SplitFrom(Advance(current_time, minutes), gap_end)

SplitGap(gap) == SplitFrom(gap.start, gap.end)

-------------------------------------------------------------------------------------------------------------------------------------------------
(* Lines 512-513: the slots of all gaps are sorted by start *)

SortSlotsNone(slots) == slots

\* line 513: valid_slots.sort(key=lambda x: x['start'])
SortSlots(slots) == SortByStart(slots)

-----
(* find_empty_slots as a state machine *)

\* a mode that is not running: nothing loaded, nothing written
NotWritten == [written |-> FALSE, mappings |-> <<>>]

NoShow == [title |-> <<>>, scheduled_duration |-> 0, show_id |-> 0]

SlotsIdle ==
    /\ pc = "idle"
    /\ fetch_error = FALSE
    /\ current_schedule = <<>>
    /\ occupied_slots = <<>>
    /\ day_offset = 0
    /\ day_shows = <<>>
    /\ empty_slots = <<>>
    /\ gap_index = 1
    /\ slot_count = 0
    /\ valid_slots = <<>>

PlanIdle ==
    /\ plan_pc = "idle"
    /\ schedule_json = {}
    /\ eligible_shows = <<>>
    /\ empty_slots_data = <<>>
    /\ shows_1hr_index = 0
    /\ shows_2hr_index = 0
    /\ slot_index = 1
    /\ updated_slots = <<>>
    /\ plan_file = NotWritten

ReplayIdle ==
    /\ replay_pc = "idle"
    /\ all_shows = <<>>
    /\ show_index = 0
    /\ replay_list = <<>>

LoopIdle ==
    /\ loop_pc = "idle"
    /\ cursor_time = 0
    /\ cursor_end = 0
    /\ loop_slots = <<>>

WeekIdle ==
    /\ week_pc = "idle"
    /\ target_date = 0
    /\ week_start = 0
    /\ end_date = 0
    /\ first_day_start = 0

\* a local variable that is not bound yet
Unbound == -1

\* the exit status of a run that has not ended
Running == -1

MainIdle ==
    /\ run_mode = "none"
    /\ main_pc = "idle"
    /\ files = {}
    /\ output_arg = ""
    /\ files_written = {}
    /\ exec_mappings = <<>>
    /\ browser = "none"
    /\ mapping_index = 0
    /\ attempted = <<>>
    /\ filled_titles = <<>>
    /\ success_count = Unbound
    /\ error_count = Unbound
    /\ exit_status = Running

AuthIdle ==
    /\ authenticated = FALSE
    /\ login_username = ""
    /\ login_password = ""
    /\ auth_pc = "idle"
    /\ session_cookies = {}
    /\ auth_browser = "none"
    /\ launches = 0
    /\ auth_calls = 0
    /\ test_status = 0
    /\ auth_raised = FALSE

BesideSlotsIdle ==
    /\ PlanIdle
    /\ ReplayIdle
    /\ LoopIdle
    /\ WeekIdle
    /\ MainIdle
    /\ AuthIdle

BesidePlanIdle ==
    /\ SlotsIdle
    /\ ReplayIdle
    /\ LoopIdle
    /\ WeekIdle
    /\ MainIdle
    /\ AuthIdle

BesideReplayIdle ==
    /\ SlotsIdle
    /\ PlanIdle
    /\ LoopIdle
    /\ WeekIdle
    /\ MainIdle
    /\ AuthIdle

BesideLoopIdle ==
    /\ SlotsIdle
    /\ PlanIdle
    /\ ReplayIdle
    /\ WeekIdle
    /\ MainIdle
    /\ AuthIdle

BesideWeekIdle ==
    /\ SlotsIdle
    /\ PlanIdle
    /\ ReplayIdle
    /\ LoopIdle
    /\ MainIdle
    /\ AuthIdle

BesideMainIdle ==
    /\ SlotsIdle
    /\ PlanIdle
    /\ ReplayIdle
    /\ LoopIdle
    /\ WeekIdle
    /\ AuthIdle

BesideAuthIdle ==
    /\ SlotsIdle
    /\ PlanIdle
    /\ ReplayIdle
    /\ LoopIdle
    /\ WeekIdle
    /\ MainIdle

Init ==
    /\ pc = "fetch"
    /\ fetch_error = FALSE
    /\ current_schedule = <<>>
    /\ occupied_slots = <<>>
    /\ day_offset = 0
    /\ day_shows = <<>>
    /\ empty_slots = <<>>
    /\ gap_index = 1
    /\ slot_count = 0
    /\ valid_slots = <<>>
    /\ BesideSlotsIdle

\* line 355, fetch_schedule lines 146-152: the API answers
FetchSchedule ==
    /\ pc = "fetch"
    /\ \E schedule \in Schedules : current_schedule' = schedule
    /\ pc' = "timeline"
    /\ UNCHANGED <<fetch_error, occupied_slots, day_offset, day_shows,
                   empty_slots, gap_index, slot_count, valid_slots>>
    /\ UNCHANGED beside_slot_vars

\* a failed fetch that ends the search with no slot
FetchFailsNoSlots ==
    /\ pc = "fetch"
    /\ current_schedule' = <<>>
    /\ fetch_error' = TRUE
    /\ pc' = "done"
    /\ UNCHANGED <<occupied_slots, day_offset, day_shows,
                   empty_slots, gap_index, slot_count, valid_slots>>
    /\ UNCHANGED beside_slot_vars

\* fetch_schedule lines 153-155: a RequestException gives []
FetchFails ==
    /\ pc = "fetch"
    /\ current_schedule' = <<>>
    /\ fetch_error' = TRUE
    /\ pc' = "timeline"
    /\ UNCHANGED <<occupied_slots, day_offset, day_shows,
                   empty_slots, gap_index, slot_count, valid_slots>>
    /\ UNCHANGED beside_slot_vars

\* lines 357-372
Timeline ==
    /\ pc = "timeline"
    /\ occupied_slots' = BuildTimeline(current_schedule)
    /\ pc' = "scan"
    /\ UNCHANGED <<fetch_error, current_schedule, day_offset, day_shows,
                   empty_slots, gap_index, slot_count, valid_slots>>
    /\ UNCHANGED beside_slot_vars

\* lines 374-417: one day of the loop, the day has no show
ScanEmptyDay ==
    /\ pc = "scan"
    /\ day_offset < Days
    /\ DayShows(occupied_slots, day_offset) = <<>>
    /\ day_shows' = <<>>
    /\ empty_slots' = empty_slots \o ScanOneDay(occupied_slots, day_offset)
    /\ day_offset' = day_offset + 1
    /\ UNCHANGED <<pc, fetch_error, current_schedule, occupied_slots,
                   gap_index, slot_count, valid_slots>>
    /\ UNCHANGED beside_slot_vars

\* lines 374-391, 418-458: one day of the loop, the day has shows
ScanBusyDay ==
    /\ pc = "scan"
    /\ day_offset < Days
    /\ DayShows(occupied_slots, day_offset) # <<>>
    /\ day_shows' = DayShows(occupied_slots, day_offset)
    /\ empty_slots' = empty_slots \o ScanOneDay(occupied_slots, day_offset)
    /\ day_offset' = day_offset + 1
    /\ UNCHANGED <<pc, fetch_error, current_schedule, occupied_slots,
                   gap_index, slot_count, valid_slots>>
    /\ UNCHANGED beside_slot_vars

\* lines 460-465: the day loop is over
ScanDone ==
    /\ pc = "scan"
    /\ day_offset >= Days
    /\ pc' = "split"
    /\ valid_slots' = <<>>
    /\ UNCHANGED <<fetch_error, current_schedule, occupied_slots, day_offset,
                   day_shows, empty_slots, gap_index, slot_count>>
    /\ UNCHANGED beside_slot_vars

\* lines 467-510: one gap of the loop
SplitNextGap ==
    /\ pc = "split"
    /\ gap_index <= Len(empty_slots)
    /\ valid_slots' = valid_slots \o SplitGap(empty_slots[gap_index])
    /\ slot_count' = Len(SplitGap(empty_slots[gap_index]))
    /\ gap_index' = gap_index + 1
    /\ UNCHANGED <<pc, fetch_error, current_schedule, occupied_slots,
                   day_offset, day_shows, empty_slots>>
    /\ UNCHANGED beside_slot_vars

\* lines 512-524: sort and return
SortAndReturn ==
    /\ pc = "split"
    /\ gap_index > Len(empty_slots)
    /\ valid_slots' = SortSlots(valid_slots)
    /\ pc' = "done"
    /\ UNCHANGED <<fetch_error, current_schedule, occupied_slots, day_offset,
                   day_shows, empty_slots, gap_index, slot_count>>
    /\ UNCHANGED beside_slot_vars

Next ==
    \/ FetchSchedule
    \/ FetchFails
    \/ Timeline
    \/ ScanEmptyDay
    \/ ScanBusyDay
    \/ ScanDone
    \/ SplitNextGap
    \/ SortAndReturn

Spec == Init /\ [][Next]_vars

---------------------------------------------------------------------------
(* main, --plan (lines 1002-1075): the files it finds on disk *)

\* the longest tracks.json
MaxCandidates == 2

\* the longest empty-slots.json
MaxSlots == 5

\* A title is the sequence of its characters; "e_acute" and "i_acute" stand
\* for the letters e and i with an acute accent.
\* 'title' of a candidate: "A", "A " (with a trailing blank) and "B"
Titles == { <<"A">>, <<"A", " ">>, <<"B">> }

\* line 648: f"{show['title']} (eist aris)", with both accents
REPLAY_SUFFIX ==
    <<" ", "(", "e_acute", "i", "s", "t", " ", "a", "r", "i_acute", "s", ")">>

\* a replay that keeps the title of its show
ReplayTitleUnmarked(title) == title

\* line 648: the title --execute gives to the replay of a show
ReplayTitle(title) == title \o REPLAY_SUFFIX

\* schedule.json as --output-schedule writes it (lines 939-958), reduced to
\* the titles of its shows; --plan does not open this file
PublishedSchedules == SUBSET {ReplayTitle(<<"A">>)}

\* tracks.json: the list build_replay_list returned (lines 300-316), each
\* show with its own show_id
CandidateFiles ==
    UNION { { [i \in 1..n |-> [title |-> t[i], scheduled_duration |-> c[i],
                               show_id |-> i]]
              : t \in [1..n -> Titles],
                c \in [1..n -> {ONE_HOUR_SLOT, TWO_HOUR_SLOT}] }
            : n \in 0..MaxCandidates }

\* empty-slots.json: the slots of --test-slots (lines 974-989) in the order
\* find_empty_slots returned them, one every two hours from Monday 09:00
SlotFiles ==
    UNION { { [i \in 1..n |-> Slot(DayStart(0) + (i - 1) * 2 * Hour, c[i])]
              : c \in [1..n -> {ONE_HOUR_SLOT, TWO_HOUR_SLOT}] }
            : n \in 0..MaxSlots }

---------------------------------------------------------------------------
(* main, --plan: the matching (lines 1030-1062) *)

ShowsOfAnyClass(shows, minutes) == shows

\* lines 1031-1032: [s for s in eligible_shows if s.get('scheduled_duration') == ...]
ShowsOfClass(shows, minutes) ==
    LET OfClass(s) == s.scheduled_duration = minutes
    IN  SelectSeq(shows, OfClass)

shows_1hr == ShowsOfClass(eligible_shows, ONE_HOUR_SLOT)

shows_2hr == ShowsOfClass(eligible_shows, TWO_HOUR_SLOT)

\* a pool that starts over when its index runs off the end
ShowAtWrapping(shows, index) ==
    IF shows = <<>> THEN NoShow ELSE shows[(index % Len(shows)) + 1]

\* lines 1051-1052, 1054-1055: the show at a cursor, None (NoShow) past the end
ShowAt(shows, index) ==
    IF index < Len(shows) THEN shows[index + 1] ELSE NoShow

NextIndexStuck(index) == index

\* lines 1053, 1056: shows_?hr_index += 1
NextIndex(index) == index + 1

RecordMappingAlways(mappings, a_slot, a_show) ==
    Append(mappings, [slot |-> a_slot, show |-> a_show])

RecordMappingFirst(mappings, a_slot, a_show) ==
    IF a_show = NoShow
    THEN mappings
    ELSE <<[slot |-> a_slot, show |-> a_show]>> \o mappings

\* lines 1058-1062: if show: updated_slots.append({'slot': slot, 'show': show})
RecordMapping(mappings, a_slot, a_show) ==
    IF a_show = NoShow
    THEN mappings
    ELSE Append(mappings, [slot |-> a_slot, show |-> a_show])

PlanInit ==
    /\ BesidePlanIdle
    /\ plan_pc = "load"
    /\ schedule_json \in PublishedSchedules
    /\ eligible_shows = <<>>
    /\ empty_slots_data = <<>>
    /\ shows_1hr_index = 0
    /\ shows_2hr_index = 0
    /\ slot_index = 1
    /\ updated_slots = <<>>
    /\ plan_file = NotWritten

\* lines 1008-1045: both files are read, the cursors start at 0
LoadPlanInputs ==
    /\ plan_pc = "load"
    /\ \E shows \in CandidateFiles : eligible_shows' = shows
    /\ \E slots \in SlotFiles : empty_slots_data' = slots
    /\ updated_slots' = <<>>
    /\ shows_1hr_index' = 0
    /\ shows_2hr_index' = 0
    /\ slot_index' = 1
    /\ plan_pc' = "match"
    /\ UNCHANGED <<schedule_json, plan_file>>
    /\ UNCHANGED beside_plan_vars

\* lines 1047-1053, 1058-1062: the slot is 60 minutes and a 1hr show is left
MatchOneHour ==
    /\ plan_pc = "match"
    /\ slot_index <= Len(empty_slots_data)
    /\ empty_slots_data[slot_index].scheduled_duration = ONE_HOUR_SLOT
    /\ ShowAt(shows_1hr, shows_1hr_index) # NoShow
    /\ updated_slots' = RecordMapping(updated_slots, empty_slots_data[slot_index],
                                      ShowAt(shows_1hr, shows_1hr_index))
    /\ shows_1hr_index' = NextIndex(shows_1hr_index)
    /\ slot_index' = slot_index + 1
    /\ UNCHANGED <<plan_pc, schedule_json, eligible_shows, empty_slots_data,
                   shows_2hr_index, plan_file>>
    /\ UNCHANGED beside_plan_vars

\* lines 1047-1050, 1054-1062: the slot is 120 minutes and a 2hr show is left
MatchTwoHour ==
    /\ plan_pc = "match"
    /\ slot_index <= Len(empty_slots_data)
    /\ empty_slots_data[slot_index].scheduled_duration = TWO_HOUR_SLOT
    /\ ShowAt(shows_2hr, shows_2hr_index) # NoShow
    /\ updated_slots' = RecordMapping(updated_slots, empty_slots_data[slot_index],
                                      ShowAt(shows_2hr, shows_2hr_index))
    /\ shows_2hr_index' = NextIndex(shows_2hr_index)
    /\ slot_index' = slot_index + 1
    /\ UNCHANGED <<plan_pc, schedule_json, eligible_shows, empty_slots_data,
                   shows_1hr_index, plan_file>>
    /\ UNCHANGED beside_plan_vars

\* lines 1047-1062: no show of the slot's length is left, show stays None
LeaveSlot ==
    /\ plan_pc = "match"
    /\ slot_index <= Len(empty_slots_data)
    /\ ~ /\ empty_slots_data[slot_index].scheduled_duration = ONE_HOUR_SLOT
         /\ ShowAt(shows_1hr, shows_1hr_index) # NoShow
    /\ ~ /\ empty_slots_data[slot_index].scheduled_duration = TWO_HOUR_SLOT
         /\ ShowAt(shows_2hr, shows_2hr_index) # NoShow
    /\ updated_slots' = RecordMapping(updated_slots, empty_slots_data[slot_index],
                                      NoShow)
    /\ slot_index' = slot_index + 1
    /\ UNCHANGED <<plan_pc, schedule_json, eligible_shows, empty_slots_data,
                   shows_1hr_index, shows_2hr_index, plan_file>>
    /\ UNCHANGED beside_plan_vars

\* lines 1064-1075: updated-slots.json is written, the run returns
SavePlan ==
    /\ plan_pc = "match"
    /\ slot_index > Len(empty_slots_data)
    /\ plan_file' = [written |-> TRUE, mappings |-> updated_slots]
    /\ plan_pc' = "done"
    /\ UNCHANGED <<schedule_json, eligible_shows, empty_slots_data,
                   shows_1hr_index, shows_2hr_index, slot_index, updated_slots>>
    /\ UNCHANGED beside_plan_vars

PlanNext ==
    \/ LoadPlanInputs
    \/ MatchOneHour
    \/ MatchTwoHour
    \/ LeaveSlot
    \/ SavePlan

PlanSpec == PlanInit /\ [][PlanNext]_vars

---------------------------------------------------------------------------
(* build_replay_list (lines 252-320): the shows the API may return *)

\* the longest list fetch_schedule returns to build_replay_list
MaxRawShows == 2

\* the longest file duration tried, in minutes
MaxDuration == 123

\* show.get('duration', 60) of a show without the field
NoDuration == -1

\* the file durations tried, around 60, 90 and 120 minutes
Durations == {0} \cup (57..63) \cup (89..91) \cup (117..MaxDuration)

\* show.get('media') of a show without media
NoMedia == [type |-> "", trackId |-> ""]

PrerecordMedia == [type |-> "mix", trackId |-> "t1"]

\* a show with a title, prerecorded, with a track: any duration, or none
PrerecordShows ==
    { [title |-> <<"A">>, media |-> PrerecordMedia, duration |-> d]
      : d \in Durations \cup {NoDuration} }

\* shows of 60 minutes that lack a title, are replays, or lack the track
OtherShows ==
    { [title |-> t, media |-> PrerecordMedia, duration |-> 60]
      : t \in { <<>>, ReplayTitle(<<"A">>),
                <<"A", " ", "E", "I", "S", "T", " ", " ", "a", "r", "i", "s">> } }
    \cup
    { [title |-> <<"A">>, media |-> m, duration |-> 60]
      : m \in { NoMedia, [type |-> "live", trackId |-> "t1"],
                [type |-> "mix", trackId |-> ""] } }
    \cup
    { [title |-> <<>>, media |-> NoMedia, duration |-> 60] }

\* fetch_schedule's list (line 270), each show with its own id
RawSchedules ==
    UNION { { [i \in 1..n |-> [id |-> i, title |-> s[i].title,
                               media |-> s[i].media, duration |-> s[i].duration]]
              : s \in [1..n -> PrerecordShows \cup OtherShows] }
            : n \in 0..MaxRawShows }

---------------------------------------------------------------------------
(* has_eist_aris_suffix (lines 56-59, 198-208) and is_eligible_show
   (lines 210-250) *)

\* re.IGNORECASE: the letters of the pattern in either case
LettersE == {"e", "E", "e_acute", "E_acute"}
LettersI == {"i", "I"}
LettersIAccent == {"i", "I", "i_acute", "I_acute"}
LettersS == {"s", "S"}
LettersT == {"t", "T"}
LettersA == {"a", "A"}
LettersR == {"r", "R"}
Whitespace == {" ", "\t"}

\* [e-acute or e]ist \s+ ar[i-acute or i]s found at position p with k blanks
\* in between; the optional brackets and blanks around it may match nothing
PatternAt(title, p, k) ==
    /\ p + 7 + k <= Len(title)
    /\ title[p] \in LettersE
    /\ title[p + 1] \in LettersI
    /\ title[p + 2] \in LettersS
    /\ title[p + 3] \in LettersT
    /\ \A q \in (p + 4)..(p + 3 + k) : title[q] \in Whitespace
    /\ title[p + 4 + k] \in LettersA
    /\ title[p + 5 + k] \in LettersR
    /\ title[p + 6 + k] \in LettersIAccent
    /\ title[p + 7 + k] \in LettersS

\* line 208: bool(self.eist_aris_pattern.search(title))
has_eist_aris_suffix(title) ==
    \E p \in 1..Len(title) : \E k \in 1..Len(title) : PatternAt(title, p, k)

is_eligible_show_any_track(a_show) ==
    /\ a_show.title # <<>>
    /\ ~has_eist_aris_suffix(a_show.title)
    /\ a_show.media # NoMedia
    /\ a_show.media.type = "mix"

\* lines 226-250
is_eligible_show(a_show) ==
    IF a_show.title = <<>>
    THEN FALSE
    ELSE IF has_eist_aris_suffix(a_show.title)
         THEN FALSE
         ELSE IF a_show.media = NoMedia
              THEN FALSE
              ELSE IF a_show.media.type # "mix"
                   THEN FALSE
                   ELSE IF a_show.media.trackId = ""
                        THEN FALSE
                        ELSE TRUE

---------------------------------------------------------------------------
(* build_replay_list: the duration classing (lines 284-299) and the loop *)

Abs(x) == IF x < 0 THEN -x ELSE x

\* line 285: file_duration = show.get('duration', 60)
file_duration(a_show) ==
    IF a_show.duration = NoDuration THEN ONE_HOUR_SLOT ELSE a_show.duration

within_1hr_loose(minutes) == Abs(minutes - ONE_HOUR_SLOT) <= 2

\* line 288
within_1hr(minutes) == Abs(minutes - ONE_HOUR_SLOT) <= 1

\* line 289
within_2hr(minutes) == Abs(minutes - TWO_HOUR_SLOT) <= 1

\* line 291: the shows that are not skipped
Classifiable(minutes) == within_1hr(minutes) \/ within_2hr(minutes)

\* lines 295-299: which of the two lengths is closer
scheduled_duration_of(minutes) ==
    IF Abs(minutes - TWO_HOUR_SLOT) < Abs(minutes - ONE_HOUR_SLOT)
    THEN TWO_HOUR_SLOT
    ELSE ONE_HOUR_SLOT

\* lines 300-314: the fields of show_data that the later steps read
show_data(a_show) ==
    [title |-> a_show.title,
     duration |-> a_show.duration,
     scheduled_duration |-> scheduled_duration_of(file_duration(a_show)),
     media_type |-> a_show.media.type,
     track_id |-> a_show.media.trackId,
     show_id |-> a_show.id]

ReplayInit ==
    /\ BesideReplayIdle
    /\ replay_pc = "fetch"
    /\ all_shows = <<>>
    /\ show_index = 0
    /\ replay_list = <<>>

\* lines 264-279: the shows of the past weeks are fetched; a failed request
\* gives the empty list
FetchAllShows ==
    /\ replay_pc = "fetch"
    /\ \E shows \in RawSchedules : all_shows' = shows
    /\ replay_list' = <<>>
    /\ show_index' = 0
    /\ replay_pc' = "loop"
    /\ UNCHANGED beside_replay_vars

\* lines 280-281: the show is not eligible
SkipIneligible ==
    /\ replay_pc = "loop"
    /\ show_index < Len(all_shows)
    /\ ~is_eligible_show(all_shows[show_index + 1])
    /\ show_index' = show_index + 1
    /\ UNCHANGED <<replay_pc, all_shows, replay_list>>
    /\ UNCHANGED beside_replay_vars

\* lines 280-293: the show is eligible, its file is neither 1hr nor 2hr long
SkipUnclassifiable ==
    /\ replay_pc = "loop"
    /\ show_index < Len(all_shows)
    /\ is_eligible_show(all_shows[show_index + 1])
    /\ ~Classifiable(file_duration(all_shows[show_index + 1]))
    /\ show_index' = show_index + 1
    /\ UNCHANGED <<replay_pc, all_shows, replay_list>>
    /\ UNCHANGED beside_replay_vars

\* lines 280-316: the show is eligible and is added with its length class
AddCandidate ==
    /\ replay_pc = "loop"
    /\ show_index < Len(all_shows)
    /\ is_eligible_show(all_shows[show_index + 1])
    /\ Classifiable(file_duration(all_shows[show_index + 1]))
    /\ replay_list' = Append(replay_list, show_data(all_shows[show_index + 1]))
    /\ show_index' = show_index + 1
    /\ UNCHANGED <<replay_pc, all_shows>>
    /\ UNCHANGED beside_replay_vars

\* lines 318-320: return eligible_shows
ReplayReturn ==
    /\ replay_pc = "loop"
    /\ show_index >= Len(all_shows)
    /\ replay_pc' = "done"
    /\ UNCHANGED <<all_shows, show_index, replay_list>>
    /\ UNCHANGED beside_replay_vars

ReplayNext ==
    \/ FetchAllShows
    \/ SkipIneligible
    \/ SkipUnclassifiable
    \/ AddCandidate
    \/ ReplayReturn

ReplaySpec == ReplayInit /\ [][ReplayNext]_vars

---------------------------------------------------------------------------
(* The loops of the core, one iteration at a time: the while loop of an
   empty day (lines 395-417), the while loop that splits a gap (lines
   478-508) and the for loop of the matching (lines 1047-1062) *)

\* the clock times at which the gaps tried start and end
LoopClocks ==
    { 9 * Hour, 10 * Hour, 12 * Hour, 13 * Hour + 30 * Minute, 17 * Hour,
      23 * Hour, DayEnd(0) }

\* the gaps find_empty_slots may hand to the splitting loop: end > start
LoopGaps ==
    { g \in [start : LoopClocks, end : LoopClocks] : g.start < g.end }

\* lines 398-416: the block an empty day gets at current_time, 0 for `break`
BlockClass(current_time, day_end) ==
    IF current_time + 2 * Hour <= day_end
    THEN TWO_HOUR_SLOT
    ELSE IF current_time + 1 * Hour <= day_end
         THEN ONE_HOUR_SLOT
         ELSE 0

\* line 394: current_time = day_start, for a day without shows
StartEmptyDayLoop ==
    /\ loop_pc = "start"
    /\ \E d \in 0..(Days - 1) :
           /\ cursor_time' = DayStart(d)
           /\ cursor_end' = DayEnd(d)
    /\ loop_slots' = <<>>
    /\ loop_pc' = "empty_day"
    /\ UNCHANGED beside_loop_vars

\* lines 467-476: current_time = gap_start, for a gap of empty_slots
StartQuantizeLoop ==
    /\ loop_pc = "start"
    /\ \E gap \in LoopGaps :
           /\ cursor_time' = gap.start
           /\ cursor_end' = gap.end
    /\ loop_slots' = <<>>
    /\ loop_pc' = "quantize"
    /\ UNCHANGED beside_loop_vars

\* lines 395-414: one iteration that appends a block
EmptyDayBlock ==
    /\ loop_pc = "empty_day"
    /\ cursor_time < cursor_end
    /\ BlockClass(cursor_time, cursor_end) # 0
    /\ loop_slots' = Append(loop_slots,
                            Block(cursor_time, BlockClass(cursor_time, cursor_end)))
    /\ cursor_time' = cursor_time + BlockClass(cursor_time, cursor_end) * Minute
    /\ UNCHANGED <<loop_pc, cursor_end>>
    /\ UNCHANGED beside_loop_vars

\* lines 395, 415-416: the loop condition fails, or `break`
EmptyDayLoopEnds ==
    /\ loop_pc = "empty_day"
    /\ \/ ~(cursor_time < cursor_end)
       \/ BlockClass(cursor_time, cursor_end) = 0
    /\ loop_pc' = "done"
    /\ UNCHANGED <<cursor_time, cursor_end, loop_slots>>
    /\ UNCHANGED beside_loop_vars

\* lines 478-504: one iteration that appends a slot
QuantizeSlot ==
    /\ loop_pc = "quantize"
    /\ cursor_time < cursor_end
    /\ SlotClass(cursor_end - cursor_time) # 0
    /\ loop_slots' = Append(loop_slots,
                            Slot(cursor_time, SlotClass(cursor_end - cursor_time)))
    /\ cursor_time' = Advance(cursor_time, SlotClass(cursor_end - cursor_time))
    /\ UNCHANGED <<loop_pc, cursor_end>>
    /\ UNCHANGED beside_loop_vars

\* lines 505-508: less than an hour remains, `break`
QuantizeBreak ==
    /\ loop_pc = "quantize"
    /\ cursor_time < cursor_end
    /\ SlotClass(cursor_end - cursor_time) = 0
    /\ loop_pc' = "done"
    /\ UNCHANGED <<cursor_time, cursor_end, loop_slots>>
    /\ UNCHANGED beside_loop_vars

\* line 478: the loop condition fails
QuantizeExit ==
    /\ loop_pc = "quantize"
    /\ ~(cursor_time < cursor_end)
    /\ loop_pc' = "done"
    /\ UNCHANGED <<cursor_time, cursor_end, loop_slots>>
    /\ UNCHANGED beside_loop_vars

\* either a while loop of find_empty_slots or the matching of --plan runs
LoopsInit ==
    \/ /\ BesideLoopIdle
       /\ loop_pc = "start"
       /\ cursor_time = 0
       /\ cursor_end = 0
       /\ loop_slots = <<>>
    \/ PlanInit

LoopsNext ==
    \/ StartEmptyDayLoop
    \/ StartQuantizeLoop
    \/ EmptyDayBlock
    \/ EmptyDayLoopEnds
    \/ QuantizeSlot
    \/ QuantizeBreak
    \/ QuantizeExit
    \/ LoadPlanInputs
    \/ MatchOneHour
    \/ MatchTwoHour
    \/ LeaveSlot
    \/ SavePlan

\* the script is one thread that runs on: a step that can be taken is taken
LoopsSpec == LoopsInit /\ [][LoopsNext]_vars /\ WF_vars(LoopsNext)

---------------------------------------------------------------------------
(* Vocabulary of the properties.  The windows are written out here, apart  *)
(* from DayStart and DayEnd, so that the properties do not follow the      *)
(* model when it changes.                                                  *)

Range(seq) == { seq[i] : i \in DOMAIN seq }

Count(seq, v) == Cardinality({ i \in DOMAIN seq : seq[i] = v })

\* 09:00 of day d
WindowStart(d) == d * Day + 9 * Hour

\* 23:59:59 of day d, the end of the window the code uses
WindowEndOfCode(d) == d * Day + 23 * Hour + 59 * Minute + 59

\* 23:00 of day d, the end of the window the specification names
WindowEndOfSpec(d) == d * Day + 23 * Hour

DayNumbers == 0..(Days - 1)

\* the gaps appended by a step
NewGaps == SubSeq(empty_slots', Len(empty_slots) + 1, Len(empty_slots'))

\* the day loop has run and empty_slots is complete
Scanned == pc \in {"split", "done"}

\* a gap has just been split: the gap, and the slots cut from it
JustSplit == pc = "split" /\ gap_index > 1

LastGap == empty_slots[gap_index - 1]

LastSlots == SubSeq(valid_slots, Len(valid_slots) - slot_count + 1, Len(valid_slots))

RECURSIVE SumOfMinutes(_)
SumOfMinutes(slots) ==
    IF slots = <<>>
    THEN 0
    ELSE slots[1].duration_minutes + SumOfMinutes(Tail(slots))

Overlap(a, b) == a.start < b.end /\ b.start < a.end

\* some occupied interval of the timeline ends before it starts
SomeIntervalReversed ==
    \E i \in DOMAIN occupied_slots : occupied_slots[i].end < occupied_slots[i].start

---------------------------------------------------------------------------
\* C1: for a day with at least one show starting in its window (shows sorted
\* by start), the scan of that day appends exactly: [dayStart, first.start)
\* iff first.start > dayStart; [s[i].end, s[i+1].start) for each adjacent pair
\* iff s[i].end < s[i+1].start; [last.end, dayEnd) iff last.end < dayEnd; each
\* as often as these rules produce it, and no other gap.
ExpectedGapCount(shows, d, g) ==
    (IF shows[1].start > WindowStart(d)
        /\ g = [start |-> WindowStart(d), end |-> shows[1].start]
     THEN 1 ELSE 0)
    + Cardinality({ i \in 1..(Len(shows) - 1) :
                      /\ shows[i].end < shows[i + 1].start
                      /\ g = [start |-> shows[i].end, end |-> shows[i + 1].start] })
    + (IF shows[Len(shows)].end < WindowEndOfCode(d)
          /\ g = [start |-> shows[Len(shows)].end, end |-> WindowEndOfCode(d)]
       THEN 1 ELSE 0)

GapPoints(shows, d) ==
    {WindowStart(d), WindowEndOfCode(d)}
        \cup { shows[i].start : i \in DOMAIN shows }
        \cup { shows[i].end : i \in DOMAIN shows }
        \cup { NewGaps[i].start : i \in DOMAIN NewGaps }
        \cup { NewGaps[i].end : i \in DOMAIN NewGaps }

C1_GapsOfBusyDay ==
    [][ (pc = "scan" /\ day_offset' = day_offset + 1 /\ day_shows' # <<>>)
        => /\ \A i \in 1..(Len(day_shows') - 1) :
                  day_shows'[i].start <= day_shows'[i + 1].start
           /\ \A a \in GapPoints(day_shows', day_offset) :
              \A b \in GapPoints(day_shows', day_offset) :
                  LET g == [start |-> a, end |-> b]
                  IN  Count(NewGaps, g) = ExpectedGapCount(day_shows', day_offset, g)
      ]_vars

\* a scanned day of two shows, each with start < end, with a gap before the
\* first, a gap between the two and a gap after the last
C1_Witness ==
    /\ pc = "scan"
    /\ Len(day_shows) = 2
    /\ \A i \in DOMAIN day_shows : day_shows[i].start < day_shows[i].end
    /\ day_shows[1].start > WindowStart(day_offset - 1)
    /\ day_shows[1].end < day_shows[2].start
    /\ [start |-> day_shows[1].end, end |-> day_shows[2].start] \in Range(empty_slots)
    /\ day_shows[Len(day_shows)].end < WindowEndOfCode(day_offset - 1)
    /\ \E i \in DOMAIN empty_slots : empty_slots[i].end = WindowEndOfCode(day_offset - 1)

---------------------------------------------------------------------------
\* C2: gap completeness.  For pairwise non-overlapping occupied intervals
\* (each with start < end), every instant of every day window [09:00, 23:00)
\* is covered by exactly one of: an emitted gap, an occupied interval.
\* Every interval here is half-open with its ends among the break points, so
\* the cover is constant between break points and is tested at each of them.
Covers(iv, t) == iv.start <= t /\ t < iv.end

CoverCount(t) ==
    Cardinality({ i \in DOMAIN empty_slots : Covers(empty_slots[i], t) })
    + Cardinality({ i \in DOMAIN occupied_slots : Covers(occupied_slots[i], t) })

BreakPoints ==
    { WindowStart(d) : d \in DayNumbers }
        \cup { empty_slots[i].start : i \in DOMAIN empty_slots }
        \cup { empty_slots[i].end : i \in DOMAIN empty_slots }
        \cup { occupied_slots[i].start : i \in DOMAIN occupied_slots }
        \cup { occupied_slots[i].end : i \in DOMAIN occupied_slots }

PairwiseNonOverlapping ==
    /\ \A i \in DOMAIN occupied_slots : occupied_slots[i].start < occupied_slots[i].end
    /\ \A i \in DOMAIN occupied_slots : \A j \in DOMAIN occupied_slots :
           i < j => ~Overlap(occupied_slots[i], occupied_slots[j])

C2_GapCompleteness ==
    (Scanned /\ PairwiseNonOverlapping)
    => \A d \in DayNumbers : \A t \in BreakPoints :
           (WindowStart(d) <= t /\ t < WindowEndOfSpec(d)) => CoverCount(t) = 1

---------------------------------------------------------------------------
\* C3: for any input, every slot lies inside the gap it was cut from and any
\* two distinct slots of the returned list have disjoint half-open ranges.
C3_SlotsNeverOverlap ==
    /\ JustSplit
       => \A k \in DOMAIN LastSlots :
              LastGap.start <= LastSlots[k].start /\ LastSlots[k].end <= LastGap.end
    /\ pc = "done"
       => \A i \in DOMAIN valid_slots : \A j \in DOMAIN valid_slots :
              i < j => ~Overlap(valid_slots[i], valid_slots[j])

---------------------------------------------------------------------------
\* C4: slot tiling.  The slots cut from a gap are contiguous from gap.start,
\* each as long as its duration says, their total length is at most the gap's
\* and the remainder left over is strictly less than 60 minutes.
C4_SlotTiling ==
    JustSplit
    => /\ \A k \in DOMAIN LastSlots :
              /\ LastSlots[k].start = IF k = 1 THEN LastGap.start ELSE LastSlots[k - 1].end
              /\ LastSlots[k].end = LastSlots[k].start + LastSlots[k].duration_minutes * Minute
       /\ SumOfMinutes(LastSlots) * Minute <= LastGap.end - LastGap.start
       /\ (LastGap.end - LastGap.start) - SumOfMinutes(LastSlots) * Minute < 60 * Minute

\* a gap was cut into several slots and left a remainder
C4_Witness ==
    /\ JustSplit
    /\ slot_count >= 2
    /\ (LastGap.end - LastGap.start) - SumOfMinutes(LastSlots) * Minute > 0

---------------------------------------------------------------------------
\* C5: greedy preference.  A gap of L minutes gives floor(L / 120) slots of
\* 120 minutes, followed by exactly one slot of 60 minutes iff L mod 120 >= 60
\* (L in seconds here); so nothing follows a 60-minute slot, and a gap of 180
\* minutes gives 120 then 60.
GapSeconds == LastGap.end - LastGap.start

C5_GreedyPreference ==
    JustSplit
    => LET twos == GapSeconds \div (120 * Minute)
           one == IF GapSeconds % (120 * Minute) >= 60 * Minute THEN 1 ELSE 0
       IN  /\ slot_count = twos + one
           /\ Len(LastSlots) = twos + one
           /\ \A k \in DOMAIN LastSlots :
                  LastSlots[k].scheduled_duration = IF k <= twos THEN 120 ELSE 60

\* a gap of 180 minutes was cut into 120 then 60
C5_Witness ==
    /\ JustSplit
    /\ GapSeconds = 180 * Minute
    /\ Len(LastSlots) = 2
    /\ LastSlots[1].scheduled_duration = 120
    /\ LastSlots[2].scheduled_duration = 60

---------------------------------------------------------------------------
\* C6 as stated: for occupied intervals with start < end, every emitted gap
\* and every emitted slot lies within 09:00-23:00 of one calendar day.
WellFormedTimeline ==
    \A i \in DOMAIN occupied_slots : occupied_slots[i].start < occupied_slots[i].end

InsideSpecWindow(iv) ==
    \E d \in DayNumbers : WindowStart(d) <= iv.start /\ iv.end <= WindowEndOfSpec(d)

SetMin(S) == CHOOSE x \in S : \A y \in S : x <= y

EarliestStart(d) ==
    SetMin({WindowStart(d)}
           \cup { occupied_slots[i].end :
                    i \in { k \in DOMAIN occupied_slots :
                              /\ WindowStart(d) <= occupied_slots[k].start
                              /\ occupied_slots[k].start < WindowEndOfCode(d) } })

InsideCodeWindow(iv) ==
    \E d \in DayNumbers : EarliestStart(d) <= iv.start /\ iv.end <= WindowEndOfCode(d)

---------------------------------------------------------------------------
\* C7: no zero-length or negative gap: every gap in the gap list has
\* end > start, whatever the input (overlapping shows, shows with end <= start).
C7_NoEmptyGap ==
    \A i \in DOMAIN empty_slots : empty_slots[i].end > empty_slots[i].start

\* gaps were emitted for a day with overlapping shows, one of them with
\* end <= start
C7_Witness ==
    /\ Scanned
    /\ \E i \in DOMAIN occupied_slots : occupied_slots[i].end <= occupied_slots[i].start
    /\ \E i \in DOMAIN occupied_slots : \E j \in DOMAIN occupied_slots :
           /\ i < j
           /\ occupied_slots[i].start < occupied_slots[i].end
           /\ occupied_slots[j].start < occupied_slots[i].end
    /\ Len(day_shows) >= 2
    /\ empty_slots # <<>>

---------------------------------------------------------------------------
\* C8: permuting the input order of intervals that share a start time leaves
\* the set of emitted gaps unchanged.
IndexPermutations(n) ==
    { p \in [1..n -> 1..n] : \A i \in 1..n : \A j \in 1..n : p[i] = p[j] => i = j }

TiePermutations(schedule) ==
    { p \in IndexPermutations(Len(schedule)) :
          \A i \in DOMAIN schedule : schedule[p[i]].start = schedule[i].start }

Permuted(schedule, p) == [i \in DOMAIN schedule |-> schedule[p[i]]]

C8_TieOrderIrrelevant ==
    Scanned
    => \A p \in TiePermutations(current_schedule) :
           Range(AllGaps(Permuted(current_schedule, p))) = Range(empty_slots)

---------------------------------------------------------------------------
\* C9: an occupied interval with end <= start is skipped: the gaps emitted are
\* the gaps of the same input without that interval, and no gap has
\* negative length.
Without(schedule, i) == SubSeq(schedule, 1, i - 1) \o SubSeq(schedule, i + 1, Len(schedule))

C9_MalformedSkipped ==
    Scanned
    => \A i \in DOMAIN current_schedule :
           (HasTimes(current_schedule[i])
            /\ current_schedule[i].end <= current_schedule[i].start)
           => /\ empty_slots = AllGaps(Without(current_schedule, i))
              /\ \A k \in DOMAIN empty_slots : empty_slots[k].end >= empty_slots[k].start

---------------------------------------------------------------------------
\* C10: a day whose only occupied interval is 12:00-13:00 gets exactly the
\* slots 09:00-11:00 (120), 11:00-12:00 (60), 13:00-15:00, 15:00-17:00,
\* 17:00-19:00, 19:00-21:00, 21:00-23:00 (120 each), in this order.
OnDay(iv, d) == d * Day <= iv.start /\ iv.start < (d + 1) * Day

OnlyNoonShow(d) ==
    /\ \E i \in DOMAIN current_schedule :
           current_schedule[i] = [start |-> d * Day + 12 * Hour, end |-> d * Day + 13 * Hour]
    /\ \A i \in DOMAIN current_schedule : \A j \in DOMAIN current_schedule :
           (OnDay(current_schedule[i], d) /\ OnDay(current_schedule[j], d)) => i = j

ExpectedSlot(d, from, to) ==
    [start |-> d * Day + from * Hour, end |-> d * Day + to * Hour,
     duration_minutes |-> (to - from) * 60, scheduled_duration |-> (to - from) * 60]

NoonShowSlots(d) ==
    << ExpectedSlot(d, 9, 11), ExpectedSlot(d, 11, 12), ExpectedSlot(d, 13, 15),
       ExpectedSlot(d, 15, 17), ExpectedSlot(d, 17, 19), ExpectedSlot(d, 19, 21),
       ExpectedSlot(d, 21, 23) >>

SlotsOnDay(d) ==
    LET Here(s) == OnDay(s, d)
    IN  SelectSeq(valid_slots, Here)

C10_NoonShowScenario ==
    pc = "done"
    => \A d \in DayNumbers : OnlyNoonShow(d) => SlotsOnDay(d) = NoonShowSlots(d)

\* the slots of a week with a day whose only show is 12:00-13:00 are returned
C10_Witness ==
    /\ pc = "done"
    /\ OnlyNoonShow(0)
    /\ Len(SlotsOnDay(0)) = 7

---------------------------------------------------------------------------
(* C11: for a day with no occupied interval starting in its window, the
   slots returned for that day are exactly the slots the quantizer cuts out
   of the single gap [dayStart, dayEnd): seven 120-minute slots from 09:00
   to 23:00 *)

NoShowInWindow(d) ==
    \A i \in DOMAIN current_schedule :
        (current_schedule[i].start # NoTime /\ current_schedule[i].end # NoTime)
        => ~(WindowStart(d) <= current_schedule[i].start
             /\ current_schedule[i].start < WindowEndOfCode(d))

SevenTwoHourSlots(d) ==
    [i \in 1..7 |-> ExpectedSlot(d, 9 + 2 * (i - 1), 9 + 2 * i)]

---------------------------------------------------------------------------
(* C12: the slot list returned by find_empty_slots, over all days, is sorted
   ascending by start time *)

SortedByStart(slots) ==
    \A i \in DOMAIN slots : \A j \in DOMAIN slots :
        i < j => slots[i].start <= slots[j].start

C12_ReturnedSlotsSorted == pc = "done" => SortedByStart(valid_slots)

RECURSIVE SlotsInGapOrder(_)
SlotsInGapOrder(gaps) ==
    IF gaps = <<>>
    THEN <<>>
    ELSE SlotsInGapOrder(SubSeq(gaps, 1, Len(gaps) - 1))
             \o SplitFrom(gaps[Len(gaps)].start, gaps[Len(gaps)].end)

\* a list is returned whose slots were not in order of start when the gaps
\* were split one after the other
C12_Witness ==
    /\ pc = "done"
    /\ ~SortedByStart(SlotsInGapOrder(empty_slots))
    /\ Len(valid_slots) = Len(SlotsInGapOrder(empty_slots))
    /\ SortedByStart(valid_slots)

---------------------------------------------------------------------------
(* C13: every slot of find_empty_slots has a duration class in {60, 120},
   its duration_minutes equals its scheduled_duration, and end - start is
   exactly that many minutes, so start < end *)

SlotWellFormed(slot) ==
    /\ slot.scheduled_duration \in {60, 120}
    /\ slot.duration_minutes = slot.scheduled_duration
    /\ slot.end - slot.start = slot.scheduled_duration * 60
    /\ slot.start < slot.end

C13_SlotsWellFormed ==
    \A i \in DOMAIN valid_slots : SlotWellFormed(valid_slots[i])

\* a returned list holds a slot of each class
C13_Witness ==
    /\ pc = "done"
    /\ \E i \in DOMAIN valid_slots : valid_slots[i].scheduled_duration = 60
    /\ \E i \in DOMAIN valid_slots : valid_slots[i].scheduled_duration = 120

---------------------------------------------------------------------------
(* Vocabulary of the properties of --plan.  A candidate is a record of      *)
(* tracks.json, told apart by its show_id; a slot is a record of            *)
(* empty-slots.json, told apart by its start.                              *)

DurationClasses == {60, 120}

CandidatesOf(minutes) ==
    { i \in DOMAIN eligible_shows : eligible_shows[i].scheduled_duration = minutes }

SlotsOf(minutes) ==
    { i \in DOMAIN empty_slots_data : empty_slots_data[i].scheduled_duration = minutes }

\* the mappings that give show number i of tracks.json
MappingsOfCandidate(mappings, i) ==
    { k \in DOMAIN mappings : mappings[k].show.show_id = eligible_shows[i].show_id }

\* the mappings that fill slot number j of empty-slots.json
MappingsOfSlot(mappings, j) ==
    { k \in DOMAIN mappings : mappings[k].slot.start = empty_slots_data[j].start }

PlanDone == plan_pc = "done" /\ plan_file.written

\* the mappings of updated-slots.json, none before it is written
written_slots == plan_file.mappings

Smaller(a, b) == IF a <= b THEN a ELSE b

---------------------------------------------------------------------------
(* C14: every assignment of the matcher pairs a slot and a candidate of the
   same duration class: slot.scheduled_duration = show.scheduled_duration,
   in the list being built and in the file written *)

SameClass(mappings) ==
    \A k \in DOMAIN mappings :
        /\ mappings[k].slot.scheduled_duration \in DurationClasses
        /\ mappings[k].slot.scheduled_duration = mappings[k].show.scheduled_duration

C14_SameDurationClass ==
    /\ SameClass(updated_slots)
    /\ SameClass(written_slots)

\* a plan is written that holds a 60-minute and a 120-minute assignment
C14_Witness ==
    /\ PlanDone
    /\ \E k \in DOMAIN written_slots : written_slots[k].slot.scheduled_duration = 60
    /\ \E k \in DOMAIN written_slots : written_slots[k].slot.scheduled_duration = 120

---------------------------------------------------------------------------
(* C15 (reuse trigger): when a duration class has candidates
   but fewer than it has slots, candidates are reused so that every slot of
   the class is filled; with 2 candidates and 5 slots each of the 2
   candidates appears at least twice *)

ShortPool(minutes) ==
    /\ CandidatesOf(minutes) # {}
    /\ Cardinality(CandidatesOf(minutes)) < Cardinality(SlotsOf(minutes))

C15_ReuseFillsEverySlot ==
    PlanDone
    => \A c \in DurationClasses :
           ShortPool(c)
           => /\ \A j \in SlotsOf(c) : MappingsOfSlot(written_slots, j) # {}
              /\ (Cardinality(CandidatesOf(c)) = 2 /\ Cardinality(SlotsOf(c)) = 5)
                 => \A i \in CandidatesOf(c) :
                        Cardinality(MappingsOfCandidate(written_slots, i)) >= 2

---------------------------------------------------------------------------
(* C16 (exclusion respected): a candidate whose trimmed title is in the
   exclusion set, the titles the published schedule already holds as
   replays, appears in no assignment of the matcher *)

\* a title without the blanks around it
RECURSIVE TrimTitle(_)
TrimTitle(title) ==
    IF title = <<>>
    THEN title
    ELSE IF Head(title) = " "
         THEN TrimTitle(Tail(title))
         ELSE IF title[Len(title)] = " "
              THEN TrimTitle(SubSeq(title, 1, Len(title) - 1))
              ELSE title

\* the plain titles whose replay is in the published schedule
ExclusionSet ==
    { TrimTitle(t) : t \in { u \in Titles : ReplayTitle(TrimTitle(u)) \in schedule_json } }

C16_ExclusionRespected ==
    \A k \in DOMAIN updated_slots :
        TrimTitle(updated_slots[k].show.title) \notin ExclusionSet

---------------------------------------------------------------------------
(* C17: within a duration class no candidate is assigned a second time
   while a candidate of that class is still unassigned, after every step of
   the matching; and with N candidates and exactly N slots of a class each
   of these candidates is assigned exactly once *)

TimesAssigned(mappings, i) == Cardinality(MappingsOfCandidate(mappings, i))

C17_ExhaustedBeforeRepeat ==
    /\ \A c \in DurationClasses : \A i \in CandidatesOf(c) :
           TimesAssigned(updated_slots, i) >= 2
           => \A l \in CandidatesOf(c) : TimesAssigned(updated_slots, l) >= 1
    /\ PlanDone
       => \A c \in DurationClasses :
              Cardinality(CandidatesOf(c)) = Cardinality(SlotsOf(c))
              => \A i \in CandidatesOf(c) : TimesAssigned(written_slots, i) = 1

\* a plan is written for 2 candidates and 2 slots of 60 minutes
C17_Witness ==
    /\ PlanDone
    /\ Cardinality(CandidatesOf(60)) = 2
    /\ Cardinality(SlotsOf(60)) = 2
    /\ Len(written_slots) >= 2

---------------------------------------------------------------------------
(* C18: the assignments appear in the order of their slots in the slot
   sequence (which is chronological), no slot appears in two assignments
   and each input slot yields at most one assignment *)

IsInputSlot(a_slot) == \E j \in DOMAIN empty_slots_data : empty_slots_data[j] = a_slot

PositionOfSlot(a_slot) == CHOOSE j \in DOMAIN empty_slots_data : empty_slots_data[j] = a_slot

InSlotOrder(mappings) ==
    /\ \A k \in DOMAIN mappings : IsInputSlot(mappings[k].slot)
    /\ \A k \in DOMAIN mappings : \A m \in DOMAIN mappings :
           k < m => /\ PositionOfSlot(mappings[k].slot) < PositionOfSlot(mappings[m].slot)
                    /\ mappings[k].slot.start < mappings[m].slot.start
    /\ \A j \in DOMAIN empty_slots_data : Cardinality(MappingsOfSlot(mappings, j)) <= 1

C18_SlotOrderPreserved ==
    /\ InSlotOrder(updated_slots)
    /\ InSlotOrder(written_slots)

\* a plan with two assignments or more is written in which a slot that
\* stayed empty lies before an assigned one
C18_Witness ==
    /\ PlanDone
    /\ Len(written_slots) >= 2
    /\ \E j \in DOMAIN empty_slots_data : \E l \in DOMAIN empty_slots_data :
           /\ j < l
           /\ MappingsOfSlot(written_slots, j) = {}
           /\ MappingsOfSlot(written_slots, l) # {}

---------------------------------------------------------------------------
(* C19 (empty pool for a class): when tracks.json has no candidate of a
   duration class, no slot of that class appears in the assignments, no
   assignment carries an absent candidate, the run still ends with the file
   written, and the slots of the other class are assigned as far as its
   candidates reach *)

MappingsOfClass(mappings, minutes) ==
    { k \in DOMAIN mappings : mappings[k].slot.scheduled_duration = minutes }

IsCandidate(a_show) == \E i \in DOMAIN eligible_shows : eligible_shows[i] = a_show

C19_EmptyPoolForClass ==
    /\ \A k \in DOMAIN updated_slots : IsCandidate(updated_slots[k].show)
    /\ \A c \in DurationClasses :
           (plan_pc # "load" /\ CandidatesOf(c) = {})
           => MappingsOfClass(updated_slots, c) = {}
    /\ plan_pc = "done"
       => /\ plan_file.written
          /\ written_slots = updated_slots
          /\ \A c \in DurationClasses : \A o \in DurationClasses \ {c} :
                 CandidatesOf(c) = {}
                 => Cardinality(MappingsOfClass(written_slots, o))
                        = Smaller(Cardinality(SlotsOf(o)), Cardinality(CandidatesOf(o)))

\* a plan is written from candidates of 120 minutes only, for slots of both
\* lengths: it holds an assignment, and none for a 60-minute slot
C19_Witness ==
    /\ PlanDone
    /\ CandidatesOf(60) = {}
    /\ SlotsOf(60) # {}
    /\ MappingsOfClass(written_slots, 120) # {}
    /\ MappingsOfClass(written_slots, 60) = {}

---------------------------------------------------------------------------
(* C20: in build_replay_list an eligible show with an integer file duration
   of d minutes is left out when d is more than 1 minute from both 60 and
   120, and the loop goes on; otherwise it is added once, with class 120 if
   |d - 120| < |d - 60| and class 60 otherwise, so that an added show has
   class 60 iff |d - 60| <= 1 and class 120 iff |d - 120| <= 1 *)

Distance(a, b) == IF a < b THEN b - a ELSE a - b

EntriesOfShow(i) ==
    { k \in DOMAIN replay_list : replay_list[k].show_id = all_shows[i].id }

ClassedAsClaimed(i) ==
    LET d == all_shows[i].duration
    IN  IF Distance(d, 60) > 1 /\ Distance(d, 120) > 1
        THEN EntriesOfShow(i) = {}
        ELSE /\ Cardinality(EntriesOfShow(i)) = 1
             /\ \A k \in EntriesOfShow(i) :
                    /\ replay_list[k].scheduled_duration
                           = IF Distance(d, 120) < Distance(d, 60) THEN 120 ELSE 60
                    /\ replay_list[k].scheduled_duration = 60 <=> Distance(d, 60) <= 1
                    /\ replay_list[k].scheduled_duration = 120 <=> Distance(d, 120) <= 1

C20_DurationClassing ==
    /\ \A i \in 1..show_index :
           (is_eligible_show(all_shows[i]) /\ all_shows[i].duration # NoDuration)
           => ClassedAsClaimed(i)
    /\ replay_pc = "done" => show_index = Len(all_shows)

\* a list is returned for a show of 62 minutes followed by a show of 119
\* minutes, both eligible: it holds the second show only, with class 120
C20_Witness ==
    /\ replay_pc = "done"
    /\ Len(all_shows) = 2
    /\ is_eligible_show(all_shows[1]) /\ all_shows[1].duration = 62
    /\ is_eligible_show(all_shows[2]) /\ all_shows[2].duration = 119
    /\ Len(replay_list) = 1
    /\ replay_list[1].show_id = 2
    /\ replay_list[1].scheduled_duration = 120

---------------------------------------------------------------------------
(* C21: the core always terminates: in each iteration the while loops of
   find_empty_slots move current_time on by 60 or 120 minutes, never past
   the end, or they stop; the matching moves on by one slot in each
   iteration; and every run of these loops comes to its end *)

LoopStepAdvances ==
    /\ (loop_pc \in {"empty_day", "quantize"} /\ loop_pc' = loop_pc)
       => /\ cursor_time' - cursor_time \in {60 * 60, 120 * 60}
          /\ cursor_time' <= cursor_end
          /\ Len(loop_slots') = Len(loop_slots) + 1
    /\ (plan_pc = "match" /\ plan_pc' = "match")
       => /\ slot_index' = slot_index + 1
          /\ slot_index' <= Len(empty_slots_data) + 1

LoopsDone == loop_pc = "done" \/ plan_pc = "done"

C21_CoreTerminates ==
    /\ [][LoopStepAdvances]_vars
    /\ <>LoopsDone
    /\ [][LoopsDone => LoopsDone']_vars

\* the loop that splits a gap has ended after three iterations or more
C21_Witness ==
    /\ loop_pc = "done"
    /\ Len(loop_slots) >= 3
    /\ \A i \in DOMAIN loop_slots : loop_slots[i].scheduled_duration \in {60, 120}

---------------------------------------------------------------------------
(* C22: is_eligible_show is True exactly for a show that has a non-empty
   title without an "eist aris" marker and a media object of type "mix"
   with a non-empty trackId; build_replay_list keeps no other show *)

\* the titles of the model that carry the marker: the replay of "A" as
\* --execute names it, and "A EIST  aris"
MarkedTitles ==
    { <<"A", " ", "(", "e_acute", "i", "s", "t", " ", "a", "r", "i_acute", "s", ")">>,
      <<"A", " ", "E", "I", "S", "T", " ", " ", "a", "r", "i", "s">> }

EligibleAsClaimed(a_show) ==
    /\ a_show.title # <<>>
    /\ a_show.title \notin MarkedTitles
    /\ a_show.media # [type |-> "", trackId |-> ""]
    /\ a_show.media.type = "mix"
    /\ a_show.media.trackId # ""

C22_EligibleShow ==
    /\ \A i \in DOMAIN all_shows :
           is_eligible_show(all_shows[i]) <=> EligibleAsClaimed(all_shows[i])
    /\ \A k \in DOMAIN replay_list :
           \E i \in 1..show_index :
               /\ all_shows[i].id = replay_list[k].show_id
               /\ EligibleAsClaimed(all_shows[i])

\* a list is returned for an eligible show and a show whose media has no
\* trackId: it holds the first only
C22_Witness ==
    /\ replay_pc = "done"
    /\ Len(all_shows) = 2
    /\ EligibleAsClaimed(all_shows[1])
    /\ all_shows[2].media = [type |-> "mix", trackId |-> ""]
    /\ all_shows[2].title = <<"A">>
    /\ Len(replay_list) = 1
    /\ replay_list[1].show_id = 1

---------------------------------------------------------------------------
(* The start of find_empty_slots: get_week_start and the planning horizon. *)
(* A datetime is a number of seconds from a Monday 00:00:00.               *)

MaxTargetDay == 13

\* the times of day a --date can carry ('%Y-%m-%d' or '%Y-%m-%d %H:%M:%S')
TargetClocks == {0, 1, DAY_START_HOUR * Hour, 12 * Hour + 30 * Minute + 15,
                 Day - 1}

TargetDates == { d * Day + c : d \in 0..MaxTargetDay, c \in TargetClocks }

\* datetime.isoweekday(): 1 = Monday, 7 = Sunday
isoweekday(a_date) == ((a_date \div Day) % 7) + 1

\* datetime.weekday(): 0 = Monday, 6 = Sunday
weekday(a_date) == (a_date \div Day) % 7

\* replace(hour=0, minute=0, second=0, microsecond=0)
AtMidnight(a_date) == (a_date \div Day) * Day

get_week_start(a_date) ==
    LET days_since_monday == weekday(a_date)
    IN  AtMidnight(a_date - days_since_monday * Day)

WeekInit ==
    /\ BesideWeekIdle
    /\ week_pc = "start"
    /\ target_date \in TargetDates
    /\ week_start = NoTime
    /\ end_date = NoTime
    /\ first_day_start = NoTime

\* week_start = self.get_week_start(target_date); end_date = week_start + days
GetWeekStart ==
    /\ week_pc = "start"
    /\ week_start' = get_week_start(target_date)
    /\ end_date' = get_week_start(target_date) + Days * Day
    /\ week_pc' = "fetch"
    /\ UNCHANGED <<target_date, first_day_start>>
    /\ UNCHANGED beside_week_vars

\* the first turn of "for day_offset in range(days)": day_start of day 0
FirstDayStart ==
    /\ week_pc = "fetch"
    /\ first_day_start' = AtMidnight(week_start + 0 * Day) + DAY_START_HOUR * Hour
    /\ week_pc' = "days"
    /\ UNCHANGED <<target_date, week_start, end_date>>
    /\ UNCHANGED beside_week_vars

WeekNext ==
    \/ GetWeekStart
    \/ FirstDayStart

WeekSpec == WeekInit /\ [][WeekNext]_vars

\* C23: get_week_start returns Monday 00:00:00 of the week of the target
\* date: the result is a Monday at midnight, is not after the target, is
\* less than seven days before it, get_week_start of the result is the
\* result, and the horizon of find_empty_slots starts on that Monday.
C23_WeekStartIsMonday ==
    week_pc # "start" =>
        /\ week_start % (7 * 24 * 3600) = 0
        /\ week_start <= target_date
        /\ target_date - week_start < 7 * 24 * 3600
        /\ get_week_start(week_start) = week_start
        /\ end_date = week_start + Days * 24 * 3600
        /\ week_pc = "days" => first_day_start = week_start + 9 * 3600

\* a Sunday 23:59:59 of the second week has had its Monday computed
C23_Witness ==
    /\ week_pc = "days"
    /\ target_date = 13 * 24 * 3600 + 24 * 3600 - 1
    /\ week_start = 7 * 24 * 3600

---------------------------------------------------------------------------
\* C24: no slot returned by find_empty_slots overlaps an occupied interval of
\* the fetched schedule: whenever every occupied interval has end > start
\* (they may overlap each other, start before 09:00, or run past the end of
\* the day), every returned slot is disjoint from every occupied interval.
ProperIntervals ==
    \A i \in DOMAIN occupied_slots : occupied_slots[i].start < occupied_slots[i].end

C24_SlotsAvoidOccupied ==
    (pc = "done" /\ ProperIntervals)
    => \A k \in DOMAIN valid_slots : \A i \in DOMAIN occupied_slots :
           ~(valid_slots[k].start < occupied_slots[i].end
             /\ occupied_slots[i].start < valid_slots[k].end)

---------------------------------------------------------------------------
(* C25: the matcher of --plan pairs in order: for each duration class the
   k-th slot of the class (in the order of the slot file) is paired with the
   k-th candidate of the class (in the order of tracks.json) for
   k = 1..min(#slots, #candidates); the class has exactly that many
   assignments and no candidate record is assigned twice in a run *)

\* the k-th smallest of a set of indices
Kth(indices, k) ==
    CHOOSE i \in indices : Cardinality({ j \in indices : j < i }) = k - 1

PairedInOrder(mappings, minutes) ==
    LET slots == SlotsOf(minutes)
        candidates == CandidatesOf(minutes)
        pairs == Smaller(Cardinality(slots), Cardinality(candidates))
    IN  /\ \A k \in 1..pairs :
               \E m \in DOMAIN mappings :
                   /\ mappings[m].slot = empty_slots_data[Kth(slots, k)]
                   /\ mappings[m].show = eligible_shows[Kth(candidates, k)]
        /\ Cardinality(MappingsOfClass(mappings, minutes)) = pairs
        /\ \A i \in candidates : Cardinality(MappingsOfCandidate(mappings, i)) <= 1

C25_InOrderPairing ==
    PlanDone => \A c \in DurationClasses : PairedInOrder(written_slots, c)

\* a plan is written where 60-minute slots outnumber the two 60-minute
\* candidates and both candidates are paired
C25_Witness ==
    /\ PlanDone
    /\ Cardinality(CandidatesOf(60)) = 2
    /\ Cardinality(SlotsOf(60)) > 2
    /\ Cardinality(MappingsOfClass(written_slots, 60)) = 2

---------------------------------------------------------------------------
(* C26: when the schedule fetch fails with a request error, fetch_schedule
   returns an empty list instead of raising and find_empty_slots goes on as
   for an empty calendar: it returns the slots of an entirely free week,
   seven 120-minute slots on each day *)

FreeWeekSlots(d) ==
    [i \in 1..7 |->
        [start |-> d * 86400 + (9 + 2 * (i - 1)) * 3600,
         end |-> d * 86400 + (9 + 2 * i) * 3600,
         duration_minutes |-> 120, scheduled_duration |-> 120]]

---------------------------------------------------------------------------
(* main, a run of --plan or of --execute as far as its files, its browser  *)
(* and its loop over the mappings go (lines 1002-1143).  The matching of   *)
(* --plan is PlanSpec; here only what it finds and leaves on disk counts.  *)

\* the longest updated-slots.json
MaxMappings == 2

TRACKS_FILE == "tracks.json"
SLOTS_FILE == "empty-slots.json"
PLAN_FILE == "updated-slots.json"

\* what --output may name
OutputArgs == {"", "plan-b.json"}

\* line 1065: args.output or 'updated-slots.json'
output_file == IF output_arg = "" THEN PLAN_FILE ELSE output_arg

\* 'title' of the show of a mapping: the titles of the candidates, a title
\* that is an opening bracket and one that is the first word of the marker
MappingTitles == Titles \cup { <<"(">>, <<"e", "i", "s", "t">> }

\* updated-slots.json: a list of {'slot': ..., 'show': ...}
MappingFiles ==
    UNION { { [i \in 1..n |->
                 [slot |-> Slot(DayStart(0) + (i - 1) * 2 * Hour, TWO_HOUR_SLOT),
                  show |-> [title |-> t[i], scheduled_duration |-> TWO_HOUR_SLOT,
                            show_id |-> i]]]
              : t \in [1..n -> MappingTitles] }
            : n \in 0..MaxMappings }

os_path_exists_always(name) == TRUE

\* os.path.exists
os_path_exists(name) == name \in files

args_vars == <<run_mode, output_arg>>
disk_vars == <<files, files_written>>
exec_vars == <<exec_mappings, browser, mapping_index, attempted, filled_titles,
               success_count, error_count>>

MainInit ==
    /\ BesideMainIdle
    /\ run_mode \in {"plan", "execute"}
    /\ main_pc = "start"
    /\ files \in SUBSET {TRACKS_FILE, SLOTS_FILE, PLAN_FILE}
    /\ output_arg \in OutputArgs
    /\ files_written = {}
    /\ exec_mappings = <<>>
    /\ browser = "none"
    /\ mapping_index = 0
    /\ attempted = <<>>
    /\ filled_titles = <<>>
    /\ success_count = Unbound
    /\ error_count = Unbound
    /\ exit_status = Running

\* sys.exit(status), a return from main (status 0), or an exception that
\* nothing catches (status 1)
Exit(status) ==
    /\ main_pc' = "exited"
    /\ exit_status' = status

\* lines 1010-1012
PlanTracksMissing ==
    /\ run_mode = "plan"
    /\ main_pc = "start"
    /\ ~os_path_exists(TRACKS_FILE)
    /\ Exit(1)
    /\ UNCHANGED <<args_vars, disk_vars, exec_vars>>
    /\ UNCHANGED beside_main_vars

\* lines 1014-1017
PlanTracksFound ==
    /\ run_mode = "plan"
    /\ main_pc = "start"
    /\ os_path_exists(TRACKS_FILE)
    /\ main_pc' = "slots_file"
    /\ UNCHANGED <<args_vars, disk_vars, exec_vars, exit_status>>
    /\ UNCHANGED beside_main_vars

\* lines 1020-1023
PlanSlotsMissing ==
    /\ main_pc = "slots_file"
    /\ ~os_path_exists(SLOTS_FILE)
    /\ Exit(1)
    /\ UNCHANGED <<args_vars, disk_vars, exec_vars>>
    /\ UNCHANGED beside_main_vars

\* lines 1025-1075: the slots are read, the matching runs, the plan is saved
PlanWritesOutput ==
    /\ main_pc = "slots_file"
    /\ os_path_exists(SLOTS_FILE)
    /\ files' = files \cup {output_file}
    /\ files_written' = files_written \cup {output_file}
    /\ Exit(0)
    /\ UNCHANGED <<args_vars, exec_vars>>
    /\ UNCHANGED beside_main_vars

\* lines 1084-1087
ExecPlanMissing ==
    /\ run_mode = "execute"
    /\ main_pc = "start"
    /\ ~os_path_exists(PLAN_FILE)
    /\ Exit(1)
    /\ UNCHANGED <<args_vars, disk_vars, exec_vars>>
    /\ UNCHANGED beside_main_vars

\* lines 1089-1092
ExecLoadMappings ==
    /\ run_mode = "execute"
    /\ main_pc = "start"
    /\ os_path_exists(PLAN_FILE)
    /\ \E on_disk \in MappingFiles : exec_mappings' = on_disk
    /\ main_pc' = "loaded"
    /\ UNCHANGED <<args_vars, disk_vars, browser, mapping_index, attempted,
                   filled_titles, success_count, error_count, exit_status>>
    /\ UNCHANGED beside_main_vars

\* lines 1094-1096: if not mappings: return
ExecNoMappings ==
    /\ main_pc = "loaded"
    /\ exec_mappings = <<>>
    /\ Exit(0)
    /\ UNCHANGED <<args_vars, disk_vars, exec_vars>>
    /\ UNCHANGED beside_main_vars

\* lines 1099-1102
ExecLaunch ==
    /\ main_pc = "loaded"
    /\ exec_mappings # <<>>
    /\ browser' = "open"
    /\ main_pc' = "login"
    /\ UNCHANGED <<args_vars, disk_vars, exec_mappings, mapping_index, attempted,
                   filled_titles, success_count, error_count, exit_status>>
    /\ UNCHANGED beside_main_vars

\* line 1100 raises: no browser, and the try of line 1104 is not entered
ExecLaunchFails ==
    /\ main_pc = "loaded"
    /\ exec_mappings # <<>>
    /\ Exit(1)
    /\ UNCHANGED <<args_vars, disk_vars, exec_vars>>
    /\ UNCHANGED beside_main_vars

\* lines 1105-1117: the login steps return, the counters start at 0
ExecLogin ==
    /\ main_pc = "login"
    /\ success_count' = 0
    /\ error_count' = 0
    /\ main_pc' = "loop"
    /\ UNCHANGED <<args_vars, disk_vars, exec_mappings, browser, mapping_index,
                   attempted, filled_titles, exit_status>>
    /\ UNCHANGED beside_main_vars

\* lines 1107-1112 raise (a timeout of the login page): lines 1137-1140
ExecLoginRaises ==
    /\ main_pc = "login"
    /\ main_pc' = "closing"
    /\ UNCHANGED <<args_vars, disk_vars, exec_vars, exit_status>>
    /\ UNCHANGED beside_main_vars

\* lines 1119-1123: create_show_from_mapping returns
CreateShow ==
    /\ main_pc = "loop"
    /\ mapping_index < Len(exec_mappings)
    /\ attempted' = Append(attempted, mapping_index + 1)
    /\ filled_titles' =
           Append(filled_titles, ReplayTitle(exec_mappings[mapping_index + 1].show.title))
    /\ success_count' = success_count + 1
    /\ mapping_index' = mapping_index + 1
    /\ UNCHANGED <<args_vars, disk_vars, exec_mappings, browser, error_count,
                   main_pc, exit_status>>
    /\ UNCHANGED beside_main_vars

\* a loop that gives up at the first exception
CreateShowRaisesAndStops ==
    /\ main_pc = "loop"
    /\ mapping_index < Len(exec_mappings)
    /\ attempted' = Append(attempted, mapping_index + 1)
    /\ error_count' = error_count + 1
    /\ main_pc' = "closing"
    /\ UNCHANGED <<args_vars, disk_vars, exec_mappings, browser, success_count,
                   mapping_index, filled_titles, exit_status>>
    /\ UNCHANGED beside_main_vars

\* lines 1124-1129: create_show_from_mapping raises, before or after it
\* filled the title in (line 651); the loop goes on
CreateShowRaises ==
    /\ main_pc = "loop"
    /\ mapping_index < Len(exec_mappings)
    /\ attempted' = Append(attempted, mapping_index + 1)
    /\ \E title_filled \in BOOLEAN :
           filled_titles' =
               IF title_filled
               THEN Append(filled_titles,
                           ReplayTitle(exec_mappings[mapping_index + 1].show.title))
               ELSE filled_titles
    /\ error_count' = error_count + 1
    /\ mapping_index' = mapping_index + 1
    /\ UNCHANGED <<args_vars, disk_vars, exec_mappings, browser, success_count,
                   main_pc, exit_status>>
    /\ UNCHANGED beside_main_vars

\* lines 1131-1136: the loop is over
ExecLoopEnds ==
    /\ main_pc = "loop"
    /\ mapping_index = Len(exec_mappings)
    /\ main_pc' = "closing"
    /\ UNCHANGED <<args_vars, disk_vars, exec_vars, exit_status>>
    /\ UNCHANGED beside_main_vars

\* lines 1141-1144: finally: browser.close(), then return
ExecCloseBrowser ==
    /\ main_pc = "closing"
    /\ browser' = "closed"
    /\ Exit(0)
    /\ UNCHANGED <<args_vars, disk_vars, exec_mappings, mapping_index, attempted,
                   filled_titles, success_count, error_count>>
    /\ UNCHANGED beside_main_vars

MainNext ==
    \/ PlanTracksMissing
    \/ PlanTracksFound
    \/ PlanSlotsMissing
    \/ PlanWritesOutput
    \/ ExecPlanMissing
    \/ ExecLoadMappings
    \/ ExecNoMappings
    \/ ExecLaunch
    \/ ExecLaunchFails
    \/ ExecLogin
    \/ ExecLoginRaises
    \/ CreateShow
    \/ CreateShowRaises
    \/ ExecLoopEnds
    \/ ExecCloseBrowser

MainSpec == MainInit /\ [][MainNext]_vars

---------------------------------------------------------------------------
(* C27: in --execute mode every mapping of updated-slots.json is attempted
   exactly once, in file order; an exception while creating one show is
   counted and does not stop the remaining mappings, so at the end
   success_count + error_count is the number of mappings, and the browser is
   closed on every path *)

InFileOrder(positions, upto) == positions = [i \in 1..upto |-> i]

ExecuteEnded == run_mode = "execute" /\ main_pc = "exited"

C27_EveryMappingAttempted ==
    (ExecuteEnded /\ exec_mappings # <<>>)
    => /\ InFileOrder(attempted, Len(exec_mappings))
       /\ success_count + error_count = Len(exec_mappings)
       /\ browser # "open"

\* C27 as the code has it: the mappings are attempted once the browser is
\* launched and the login steps have returned; then each is attempted once,
\* in file order, whatever the earlier ones raised, and the counters add up
\* to the number of mappings.  When the login steps raise, no mapping is
\* attempted and nothing is counted.  A browser that was launched is closed
\* when the run ends.
LoginReturned == success_count # Unbound

C27_AttemptedOnceLoggedIn ==
    /\ InFileOrder(attempted, mapping_index)
    /\ LoginReturned => success_count + error_count = mapping_index
    /\ ~LoginReturned => attempted = <<>>
    /\ (LoginReturned /\ main_pc \in {"closing", "exited"})
       => InFileOrder(attempted, Len(exec_mappings))
    /\ main_pc = "exited" => browser # "open"
    /\ (main_pc = "exited" /\ exit_status = 0 /\ exec_mappings # <<>>)
       => browser = "closed"

\* a run of two mappings has ended: one show created, one exception counted
C27_Witness ==
    /\ ExecuteEnded
    /\ Len(exec_mappings) = 2
    /\ success_count = 1
    /\ error_count = 1
    /\ attempted = <<1, 2>>
    /\ browser = "closed"

---------------------------------------------------------------------------
(* C28 (pipeline prerequisites): --plan writes updated-slots.json only if
   tracks.json and empty-slots.json both exist; --execute creates shows only
   if updated-slots.json exists; when a required input file is missing the
   run exits with status 1, has written no file and has created no show; an
   empty mapping list makes --execute return without launching the browser *)

NothingDone ==
    /\ files_written = {}
    /\ attempted = <<>>
    /\ filled_titles = <<>>
    /\ browser = "none"

InputMissing ==
    \/ run_mode = "plan"
       /\ ("tracks.json" \notin files \/ "empty-slots.json" \notin files)
    \/ run_mode = "execute" /\ "updated-slots.json" \notin files

C28_PipelinePrerequisites ==
    /\ files_written # {}
       => /\ run_mode = "plan"
          /\ {"tracks.json", "empty-slots.json"} \subseteq files
    /\ (attempted # <<>> \/ browser # "none")
       => /\ run_mode = "execute"
          /\ "updated-slots.json" \in files
    /\ InputMissing
       => /\ NothingDone
          /\ main_pc = "exited" => exit_status = 1
    /\ (run_mode = "execute" /\ main_pc = "exited" /\ ~InputMissing
        /\ exec_mappings = <<>>)
       => /\ NothingDone
          /\ exit_status = 0

\* --plan has ended where tracks.json is there and empty-slots.json is not
C28_Witness ==
    /\ run_mode = "plan"
    /\ main_pc = "exited"
    /\ "tracks.json" \in files
    /\ "empty-slots.json" \notin files
    /\ exit_status = 1

---------------------------------------------------------------------------
(* C29: a replay is never a replay source.  Every title filled in by
   create_show_from_mapping is the title of the mapping's show followed by
   " (eist aris)" with both accents; has_eist_aris_suffix recognises it, so
   a schedule entry with that title is not eligible in build_replay_list,
   whatever its media and its duration *)

MARKED == <<" ", "(", "e_acute", "i", "s", "t", " ", "a", "r", "i_acute", "s", ")">>

\* the entries a later schedule can hold for a show with this title
EntriesTitled(title) ==
    { [id |-> 1, title |-> title, media |-> m, duration |-> d]
      : m \in {PrerecordMedia, NoMedia}, d \in {60, 120} }

C29_ReplayNeverEligible ==
    \A k \in DOMAIN filled_titles :
        /\ \E i \in DOMAIN attempted :
               filled_titles[k] = exec_mappings[attempted[i]].show.title \o MARKED
        /\ has_eist_aris_suffix(filled_titles[k])
        /\ \A entry \in EntriesTitled(filled_titles[k]) : ~is_eligible_show(entry)

\* titles were filled in for a show called "(" and for a show called "eist"
C29_Witness ==
    /\ Len(filled_titles) = 2
    /\ filled_titles[1] = <<"(">> \o MARKED
    /\ filled_titles[2] = <<"e", "i", "s", "t">> \o MARKED

---------------------------------------------------------------------------
(* authenticate_with_playwright (lines 61-123), called any number of times *)
(* on one scheduler                                                        *)

\* the most calls of authenticate_with_playwright on one scheduler
MaxCalls == 3

\* RADIOCULT_USER and RADIOCULT_PW (lines 759-760), "" when not set
Usernames == {"", "user"}
Passwords == {"", "pw"}

\* what context.cookies() can hold after the form is submitted (line 96)
ContextCookies == { {}, {"sid=1"}, {"sid=2"} }

\* statuses of the test request (line 109)
UNAUTHORIZED == 401
TestStatuses == {200, 400, UNAUTHORIZED}

never_authenticated == FALSE

\* line 66: if self.authenticated
already_authenticated == authenticated

AuthInit ==
    /\ BesideAuthIdle
    /\ authenticated = FALSE
    /\ login_username \in Usernames
    /\ login_password \in Passwords
    /\ auth_pc = "idle"
    /\ session_cookies = {}
    /\ auth_browser = "none"
    /\ launches = 0
    /\ auth_calls = 0
    /\ test_status = 0
    /\ auth_raised = FALSE

credential_vars == <<login_username, login_password>>

\* a caller calls authenticate_with_playwright (line 846)
AuthCall ==
    /\ auth_pc = "idle"
    /\ auth_calls < MaxCalls
    /\ auth_calls' = auth_calls + 1
    /\ test_status' = 0
    /\ auth_raised' = FALSE
    /\ auth_pc' = "called"
    /\ UNCHANGED <<authenticated, credential_vars, session_cookies, auth_browser,
                   launches>>
    /\ UNCHANGED beside_auth_vars

\* lines 66-67
AuthAlreadyDone ==
    /\ auth_pc = "called"
    /\ already_authenticated
    /\ auth_pc' = "idle"
    /\ UNCHANGED <<authenticated, credential_vars, session_cookies, auth_browser,
                   launches, auth_calls, test_status, auth_raised>>
    /\ UNCHANGED beside_auth_vars

\* lines 69-71
AuthNoCredentials ==
    /\ auth_pc = "called"
    /\ ~already_authenticated
    /\ login_username = "" \/ login_password = ""
    /\ auth_pc' = "idle"
    /\ UNCHANGED <<authenticated, credential_vars, session_cookies, auth_browser,
                   launches, auth_calls, test_status, auth_raised>>
    /\ UNCHANGED beside_auth_vars

\* lines 75-78
AuthLaunch ==
    /\ auth_pc = "called"
    /\ ~already_authenticated
    /\ login_username # "" /\ login_password # ""
    /\ auth_browser' = "open"
    /\ launches' = launches + 1
    /\ auth_pc' = "login"
    /\ UNCHANGED <<authenticated, credential_vars, session_cookies, auth_calls,
                   test_status, auth_raised>>
    /\ UNCHANGED beside_auth_vars

\* lines 82-93 raise: lines 120-121
AuthLoginRaises ==
    /\ auth_pc = "login"
    /\ auth_raised' = TRUE
    /\ auth_pc' = "closing"
    /\ UNCHANGED <<authenticated, credential_vars, session_cookies, auth_browser,
                   launches, auth_calls, test_status>>
    /\ UNCHANGED beside_auth_vars

\* lines 82-103: the form is submitted, the cookies go to the session
AuthSetCookies ==
    /\ auth_pc = "login"
    /\ \E from_context \in ContextCookies :
           session_cookies' = session_cookies \cup from_context
    /\ auth_pc' = "test"
    /\ UNCHANGED <<authenticated, credential_vars, auth_browser, launches,
                   auth_calls, test_status, auth_raised>>
    /\ UNCHANGED beside_auth_vars

\* line 109 raises: lines 120-121
AuthTestRaises ==
    /\ auth_pc = "test"
    /\ auth_raised' = TRUE
    /\ auth_pc' = "closing"
    /\ UNCHANGED <<authenticated, credential_vars, session_cookies, auth_browser,
                   launches, auth_calls, test_status>>
    /\ UNCHANGED beside_auth_vars

\* lines 109-118
AuthTest ==
    /\ auth_pc = "test"
    /\ \E status \in TestStatuses :
           /\ test_status' = status
           /\ IF status = UNAUTHORIZED
              THEN /\ auth_browser' = "closed"
                   /\ UNCHANGED authenticated
              ELSE /\ authenticated' = TRUE
                   /\ UNCHANGED auth_browser
    /\ auth_pc' = "closing"
    /\ UNCHANGED <<credential_vars, session_cookies, launches, auth_calls,
                   auth_raised>>
    /\ UNCHANGED beside_auth_vars

\* lines 122-123: finally: browser.close()
AuthClose ==
    /\ auth_pc = "closing"
    /\ auth_browser' = "closed"
    /\ auth_pc' = "idle"
    /\ UNCHANGED <<authenticated, credential_vars, session_cookies, launches,
                   auth_calls, test_status, auth_raised>>
    /\ UNCHANGED beside_auth_vars

AuthNext ==
    \/ AuthCall
    \/ AuthAlreadyDone
    \/ AuthNoCredentials
    \/ AuthLaunch
    \/ AuthLoginRaises
    \/ AuthSetCookies
    \/ AuthTestRaises
    \/ AuthTest
    \/ AuthClose

AuthSpec == AuthInit /\ [][AuthNext]_vars

(* C30: the authenticated flag is monotone and guarded.  It starts False; it
   becomes True only within a call of authenticate_with_playwright that had
   both credentials set, raised no exception and got a status other than 401
   from the test request; it never goes back to False; and once it is True
   every later call returns at once, launching no browser and leaving the
   session cookies as they are *)

BecomesAuthenticated == ~authenticated /\ authenticated'

AuthStepGuarded ==
    /\ authenticated => authenticated'
    /\ BecomesAuthenticated
       => /\ auth_pc \notin {"idle", "called"}
          /\ login_username # "" /\ login_password # ""
          /\ ~auth_raised /\ ~auth_raised'
          /\ test_status' \in {200, 400}
    /\ authenticated
       => /\ launches' = launches
          /\ session_cookies' = session_cookies
    /\ (authenticated /\ auth_pc = "called")
       => /\ auth_pc' = "idle"
          /\ auth_browser' = auth_browser

C30_AuthenticatedGuarded == (~authenticated) /\ [][AuthStepGuarded]_vars

\* the first call authenticated and a second call has returned: one browser
\* was launched in all
C30_Witness ==
    /\ authenticated
    /\ auth_calls = 2
    /\ auth_pc = "idle"
    /\ launches = 1
    /\ session_cookies # {}

====
